---- MODULE Spec2Model ----
(***************************************************************************)
(* Verification model of lisk-v4-dex-adapter.                              *)
(*                                                                         *)
(*   SpecClient : HttpClient.get/post with its fallback chain              *)
(*                (src/lisk-service/client.js)                             *)
(*   SpecBlocks,                                                           *)
(*   SpecTxs    : the adapter's block and transaction queries against a    *)
(*                remote index (src/liskv3/adapter.js,                     *)
(*                src/lisk-service/repository.js)                          *)
(*   SpecPost   : load and postTransaction (src/liskv3/adapter.js)         *)
(*   SpecMapper : transactionMapper on pairs of transactions               *)
(*                (src/liskv3/mapper.js)                                   *)
(*   SpecAuth   : the adapter's multisig account queries                   *)
(*   SpecQueries: every query action of a loaded adapter                   *)
(*   SpecRoundTrip: a signature vector written by postTransaction and read *)
(*                back by the adapter's transactionMapper                  *)
(*   SpecConfig : the HttpClient built from the repository's configuration *)
(*                (src/unnamed/part_000)                                   *)
(*   SpecRepo   : the query actions next to a client with fallbacks        *)
(***************************************************************************)
EXTENDS Integers, Sequences, FiniteSets, TLC

VARIABLES
    baseUrl,      \* HttpClient.baseUrl
    fallbacks,    \* HttpClient.fallbacks
    logger,       \* per call, the warnings it handed to HttpClient.logger.warn, in order
    calls,        \* one record per get/post invocation on the client
    blockIndex,   \* remote index: the heights of the indexed blocks
    txIndex,      \* remote index: the indexed transactions
    accountAuth,  \* remote index: the auth record of the DEX wallet account
    dexWalletAddress,        \* LiskV3DEXAdapter.dexWalletAddress
    channel,                 \* LiskV3DEXAdapter.channel
    channelLog,              \* what has been invoked / published on the channel
    adapterPc,               \* how far load has got
    dexMultisigPublicKeys,   \* LiskV3DEXAdapter.dexMultisigPublicKeys (M)
    dexNumberOfSignatures,   \* LiskV3DEXAdapter.dexNumberOfSignatures (T)
    sent,         \* the request the repository sent for the latest action, and its status
    reply         \* the latest action: its name, its params and its outcome

clientVars == <<baseUrl, fallbacks, logger, calls>>
indexVars == <<blockIndex, txIndex, accountAuth>>
adapterVars == <<dexWalletAddress, channel, channelLog, adapterPc,
                 dexMultisigPublicKeys, dexNumberOfSignatures>>
vars == <<baseUrl, fallbacks, logger, calls, blockIndex, txIndex, accountAuth,
          dexWalletAddress, channel, channelLog, adapterPc,
          dexMultisigPublicKeys, dexNumberOfSignatures, sent, reply>>

(***************************************************************************)
(* Bounds                                                                  *)
(***************************************************************************)
MaxFallbacks == 2
NumCalls == 2
MaxHeight == 3
MaxLimit == 3
MaxTime == 2
MaxTxs == 3
MaxMandatory == 1
MaxOptional == 2
MaxPackets == 3

NoRequest == [path |-> "none"]
NoReply == [action |-> "none", kind |-> "none"]

\* A field that has not been assigned (JS undefined).
Unset == <<"undefined">>
NoAuth == [mandatoryKeys |-> <<>>, optionalKeys |-> <<>>, numberOfSignatures |-> 0]
DexWallet == "lskDex"

\* An adapter that is not part of the specification at hand.
AdapterIdle ==
    /\ accountAuth = NoAuth
    /\ dexWalletAddress = DexWallet
    /\ channel = "undefined"
    /\ channelLog = <<>>
    /\ adapterPc = "constructed"
    /\ dexMultisigPublicKeys = Unset
    /\ dexNumberOfSignatures = 0

(***************************************************************************)
(* HttpClient (src/lisk-service/client.js)                                 *)
(***************************************************************************)
Urls == {"hostA", "hostB"}
PrimaryUrl == "hostA"

\* Values a request function can resolve to.  axios resolves to a response
\* object; a response interceptor of the shared axios instance can make it
\* resolve to any value, including the falsy ones.
TruthyValues == {"block100"}
FalsyValues == {"null", "undefined", "emptyString", "zero", "false"}
Values == TruthyValues \cup FalsyValues

\* The ways a single attempt can reject.
ErrKinds == {"network", "timeout"}

CallIds == 1..NumCalls

\* An error object.  at = position of the attempt that threw it (0 = the
\* primary, i = the i-th fallback); it stands for the object's identity.
NoErr == [at |-> -1, kind |-> "none"]
MkErr(at, kind) == [at |-> at, kind |-> kind]

NoResult == [kind |-> "none", val |-> "none", err |-> NoErr]
Returned(v) == [kind |-> "return", val |-> v, err |-> NoErr]
Thrown(e) == [kind |-> "throw", val |-> "none", err |-> e]

IdleCall ==
    [pc |-> "idle", method |-> "none", err |-> NoErr, fbIdx |-> 0,
     attempts |-> <<>>, result |-> NoResult]

\* JS ToBoolean of a resolved value: `if (response)`.
Truthy(v) == v \notin FalsyValues

FinishCatch_NeverThrows(response, err) == Returned(response)

\* The tail of get/post's catch block: return the fallback response when it
\* is truthy, otherwise rethrow the primary's error.
FinishCatch(response, err) ==
    IF Truthy(response) THEN Returned(response) ELSE Thrown(err)

\* One attempt, as recorded for the claims: endpoint position, its url, how
\* it ended ("pending" while the request is in flight) and what it settled
\* with: the value it resolved to, or for the primary the kind of the error
\* it threw (a fallback's error is dropped by the catch in tryWithFallback).
Attempt(ep, url) == [ep |-> ep, url |-> url, out |-> "pending", val |-> "none"]

Settle(c, out, v) ==
    [calls[c].attempts EXCEPT ![Len(calls[c].attempts)].out = out,
                              ![Len(calls[c].attempts)].val = v]

Warn_Silent(c, url) == logger

\* logger.warn(...): the message names the url of the endpoint that failed.
Warn(c, url) == [logger EXCEPT ![c] = Append(logger[c], url)]

InitClient ==
    /\ baseUrl = PrimaryUrl
    /\ \E n \in 0..MaxFallbacks : fallbacks \in [1..n -> Urls]
    /\ logger = [c \in CallIds |-> <<>>]
    /\ calls = [c \in CallIds |-> IdleCall]
    /\ blockIndex = {}
    /\ txIndex = {}
    /\ AdapterIdle
    /\ sent = NoRequest
    /\ reply = NoReply

\* get / post up to the first await: the request to the primary is issued.
StartCall(c, m) ==
    /\ calls[c].pc = "idle"
    /\ calls' = [calls EXCEPT ![c] =
                    [IdleCall EXCEPT !.pc = "primary", !.method = m,
                                     !.attempts = <<Attempt(0, baseUrl)>>]]
    /\ UNCHANGED <<baseUrl, fallbacks, logger>>

Get(c) == StartCall(c, "get")

Post(c) == StartCall(c, "post")

\* The primary request resolves: `return await getReqFn(this.baseUrl)`.
PrimaryResolves(c) ==
    /\ calls[c].pc = "primary"
    /\ \E v \in Values :
          calls' = [calls EXCEPT ![c].pc = "done",
                                 ![c].attempts = Settle(c, "ok", v),
                                 ![c].result = Returned(v)]
    /\ UNCHANGED <<baseUrl, fallbacks, logger>>

PrimaryRejects_Sticky(c) ==
    /\ calls[c].pc = "primary"
    /\ \E k \in ErrKinds :
         LET e == MkErr(0, k) IN
          /\ logger' = Warn(c, baseUrl)
          /\ IF Len(fallbacks) = 0
               THEN /\ calls' = [calls EXCEPT ![c].pc = "done",
                                              ![c].err = e,
                                              ![c].attempts = Settle(c, "fail", k),
                                              ![c].result = FinishCatch("null", e)]
                    /\ baseUrl' = baseUrl
               ELSE /\ calls' = [calls EXCEPT ![c].pc = "fallback",
                                              ![c].err = e,
                                              ![c].fbIdx = 1,
                                              ![c].attempts =
                                                  Append(Settle(c, "fail", k),
                                                         Attempt(1, fallbacks[1]))]
                    /\ baseUrl' = fallbacks[1]
    /\ UNCHANGED fallbacks

\* The primary request rejects: warn, then enter tryWithFallback, whose loop
\* issues the first fallback request or, with no fallbacks, returns null.
PrimaryRejects(c) ==
    /\ calls[c].pc = "primary"
    /\ \E k \in ErrKinds :
         LET e == MkErr(0, k) IN
          /\ logger' = Warn(c, baseUrl)
          /\ IF Len(fallbacks) = 0
               THEN calls' = [calls EXCEPT ![c].pc = "done",
                                           ![c].err = e,
                                           ![c].attempts = Settle(c, "fail", k),
                                           ![c].result = FinishCatch("null", e)]
               ELSE calls' = [calls EXCEPT ![c].pc = "fallback",
                                           ![c].err = e,
                                           ![c].fbIdx = 1,
                                           ![c].attempts =
                                               Append(Settle(c, "fail", k),
                                                      Attempt(1, fallbacks[1]))]
    /\ UNCHANGED <<baseUrl, fallbacks>>

FallbackResolves_KeepsGoing(c) ==
    /\ calls[c].pc = "fallback"
    /\ \E v \in Values :
         LET i == calls[c].fbIdx IN
          IF i = Len(fallbacks)
            THEN calls' = [calls EXCEPT ![c].pc = "done",
                                        ![c].attempts = Settle(c, "ok", v),
                                        ![c].result = FinishCatch(v, calls[c].err)]
            ELSE calls' = [calls EXCEPT ![c].fbIdx = i + 1,
                                        ![c].attempts =
                                            Append(Settle(c, "ok", v),
                                                   Attempt(i + 1, fallbacks[i + 1]))]
    /\ UNCHANGED <<baseUrl, fallbacks, logger>>

\* A fallback request resolves: tryWithFallback returns the value at once
\* and the catch block of get/post decides what the caller gets.
FallbackResolves(c) ==
    /\ calls[c].pc = "fallback"
    /\ \E v \in Values :
          calls' = [calls EXCEPT ![c].pc = "done",
                                 ![c].attempts = Settle(c, "ok", v),
                                 ![c].result = FinishCatch(v, calls[c].err)]
    /\ UNCHANGED <<baseUrl, fallbacks, logger>>

FallbackRejects_ThrowsLast(c) ==
    /\ calls[c].pc = "fallback"
    /\ \E k \in ErrKinds :
         LET i == calls[c].fbIdx IN
          /\ logger' = Warn(c, fallbacks[i])
          /\ IF i = Len(fallbacks)
               THEN calls' = [calls EXCEPT ![c].pc = "done",
                                           ![c].attempts = Settle(c, "fail", "none"),
                                           ![c].result = Thrown(MkErr(i, k))]
               ELSE calls' = [calls EXCEPT ![c].fbIdx = i + 1,
                                           ![c].attempts =
                                               Append(Settle(c, "fail", "none"),
                                                      Attempt(i + 1, fallbacks[i + 1]))]
    /\ UNCHANGED <<baseUrl, fallbacks>>

\* A fallback request rejects: the error e is caught and dropped, a warning
\* is logged, and the loop goes on with the next fallback or, after the last
\* one, returns null.
FallbackRejects(c) ==
    /\ calls[c].pc = "fallback"
    /\ \E k \in ErrKinds :
         LET i == calls[c].fbIdx IN
          /\ logger' = Warn(c, fallbacks[i])
          /\ IF i = Len(fallbacks)
               THEN calls' = [calls EXCEPT ![c].pc = "done",
                                           ![c].attempts = Settle(c, "fail", "none"),
                                           ![c].result = FinishCatch("null", calls[c].err)]
               ELSE calls' = [calls EXCEPT ![c].fbIdx = i + 1,
                                           ![c].attempts =
                                               Append(Settle(c, "fail", "none"),
                                                      Attempt(i + 1, fallbacks[i + 1]))]
    /\ UNCHANGED <<baseUrl, fallbacks>>

NextClient ==
    /\ \E c \in CallIds :
        \/ Get(c)
        \/ Post(c)
        \/ PrimaryResolves(c)
        \/ PrimaryRejects(c)
        \/ FallbackResolves(c)
        \/ FallbackRejects(c)
    /\ UNCHANGED <<indexVars, adapterVars, sent, reply>>

SpecClient == InitClient /\ [][NextClient]_vars

(***************************************************************************)
(* Properties of HttpClient.get / HttpClient.post                          *)
(***************************************************************************)
Att(c) == calls[c].attempts
Done(c) == calls[c].pc = "done"
AllFailed(c) == \A j \in DOMAIN Att(c) : Att(c)[j].out = "fail"
FailedUrls(c) == SelectSeq(Att(c), LAMBDA a : a.out = "fail")
\* The primary failed, fallbacks 1..k-1 failed and fallback k resolved.
SucceededAtFallback(c, k) ==
    /\ Done(c)
    /\ Len(Att(c)) >= k + 1
    /\ \A j \in 1..k : Att(c)[j].out = "fail"
    /\ Att(c)[k + 1].out = "ok"

\* C1: with a non-empty fallback list, when the primary and every fallback
\* fail, the call throws the very error the primary attempt threw (never a
\* fallback's) and that is the only outcome the caller sees.
C1_PrimaryErrorRaised ==
    \A c \in CallIds :
        (Done(c) /\ Len(fallbacks) > 0 /\ AllFailed(c))
            => /\ calls[c].result = Thrown(MkErr(0, Att(c)[1].val))
               /\ calls[c].result.err.at = 0
               /\ Len(Att(c)) = 1 + Len(fallbacks)

C1_Witness ==
    \E c \in CallIds :
        /\ Done(c) /\ Len(fallbacks) = MaxFallbacks /\ AllFailed(c)
        /\ Len(Att(c)) = 1 + Len(fallbacks)
        /\ calls[c].result.kind = "throw"

\* C2: with a non-empty fallback list, when the primary fails, fallbacks
\* 1..k-1 fail and fallback k resolves, the call returns exactly fallback k's
\* response and no fallback after k is attempted.
C2_KthFallbackResponseReturned ==
    \A c \in CallIds : \A k \in 1..Len(fallbacks) :
        SucceededAtFallback(c, k)
            => /\ calls[c].result = Returned(Att(c)[k + 1].val)
               /\ Len(Att(c)) = k + 1

\* C3: a fallback that resolves to a falsy value after the primary failed
\* counts as success: nothing later is attempted and the call returns that
\* value instead of throwing.
C3_FalsyFallbackIsSuccess ==
    \A c \in CallIds : \A k \in 1..Len(fallbacks) :
        (SucceededAtFallback(c, k) /\ Att(c)[k + 1].val \in FalsyValues)
            => /\ Len(Att(c)) = k + 1
               /\ calls[c].result = Returned(Att(c)[k + 1].val)

\* C4: inside one call the attempts are strictly sequential and never
\* retried: the primary comes first, attempt j goes to endpoint j-1 of the
\* endpoint set, everything before the latest attempt has failed (so at most
\* one request is in flight and at most one attempt succeeds, the last one),
\* and there are at most 1 + |fallbacks| attempts.
C4_SequentialNoRetry ==
    \A c \in CallIds :
        /\ Len(Att(c)) <= 1 + Len(fallbacks)
        /\ \A j \in DOMAIN Att(c) :
              /\ Att(c)[j].ep = j - 1
              /\ Att(c)[j].url = IF j = 1 THEN baseUrl ELSE fallbacks[j - 1]
              /\ j < Len(Att(c)) => Att(c)[j].out = "fail"
        /\ Cardinality({j \in DOMAIN Att(c) : Att(c)[j].out = "pending"}) <= 1
        /\ Cardinality({j \in DOMAIN Att(c) : Att(c)[j].out = "ok"}) <= 1
        /\ (calls[c].pc \in {"primary", "fallback"})
              <=> (Len(Att(c)) > 0 /\ Att(c)[Len(Att(c))].out = "pending")
        /\ Done(c) => Att(c)[Len(Att(c))].out \in {"ok", "fail"}

C4_Witness ==
    \E c \in CallIds :
        /\ calls[c].method = "post" /\ Done(c)
        /\ Len(Att(c)) = 1 + MaxFallbacks
        /\ Att(c)[Len(Att(c))].out = "ok"

\* C5: the warnings a call logs are exactly its failed attempts, one each,
\* in attempt order and naming the failed endpoint; an endpoint that
\* resolved or was never attempted gets none.  With the primary down and a
\* single fallback returning the block, there is one warning, for the
\* primary, and the result is the block.
C5_OneWarningPerFailure ==
    \A c \in CallIds :
        /\ Len(logger[c]) = Len(FailedUrls(c))
        /\ \A j \in DOMAIN logger[c] : logger[c][j] = FailedUrls(c)[j].url
        /\ (Len(fallbacks) = 1 /\ SucceededAtFallback(c, 1)
                /\ Att(c)[2].val = "block100")
              => /\ logger[c] = <<baseUrl>>
                 /\ calls[c].result = Returned("block100")

C5_Witness ==
    \E c \in CallIds :
        /\ Len(fallbacks) = 1 /\ SucceededAtFallback(c, 1)
        /\ calls[c].method = "get"
        /\ Att(c)[2].val = "block100"
        /\ Len(logger[c]) = 1

\* C6: with no fallbacks the client is a single-endpoint client: one
\* attempt, to the primary; its response is returned, or its error thrown.
C6_EmptyFallbacksSingleEndpoint ==
    \A c \in CallIds :
        (Len(fallbacks) = 0 /\ Done(c))
            => /\ Len(Att(c)) = 1
               /\ Att(c)[1].ep = 0 /\ Att(c)[1].url = baseUrl
               /\ Att(c)[1].out = "ok" => calls[c].result = Returned(Att(c)[1].val)
               /\ Att(c)[1].out = "fail"
                     => calls[c].result = Thrown(MkErr(0, Att(c)[1].val))

C6_Witness ==
    \E c \in CallIds :
        /\ Len(fallbacks) = 0 /\ Done(c)
        /\ calls[c].result.kind = "throw"

(***************************************************************************)
(* The remote index (Lisk Service), as the repository's queries see it     *)
(***************************************************************************)
Null == -1      \* a JS null / undefined argument
Empty == -2     \* '' on one side of an interval string: no bound there

Heights == 0..MaxHeight
Timestamps == 0..MaxTime
Limits == 1..MaxLimit
Addresses == {"lskA", "lskB"}
ModuleCommands == {"token:transfer", "pos:stake"}

BlocksPath == "/api/v3/blocks"
TransactionsPath == "/api/v3/transactions"

\* A filter value: an exact value, or the interval string `lo:hi`.
Exact(v) == [kind |-> "exact", v |-> v]
Interval(lo, hi) == [kind |-> "interval", lo |-> lo, hi |-> hi]

Has(q, k) == k \in DOMAIN q

\* The index's reading of a filter value; intervals are inclusive.
Matches(v, f) ==
    IF f.kind = "exact" THEN v = f.v
    ELSE (f.lo = Empty \/ v >= f.lo) /\ (f.hi = Empty \/ v <= f.hi)

Min(a, b) == IF a <= b THEN a ELSE b
Take(s, n) == SubSeq(s, 1, Min(n, Len(s)))
MapSeq(F(_), s) == [i \in DOMAIN s |-> F(s[i])]

\* The block the index holds at height h.
BlockAt(h) ==
    [id |-> <<"block", h>>, height |-> h, timestamp |-> 10 * h,
     numberOfTransactions |-> 0, generatorAddress |-> "lskG"]

OtherAddress(a) == CHOOSE b \in Addresses : b /= a

\* An indexed transaction, in the shape the service returns it.
IndexedTx(a, t, mc) ==
    [id |-> <<a, t, mc>>, moduleCommand |-> mc, nonce |-> t,
     sender |-> [address |-> a],
     params |-> [amount |-> 1, recipientAddress |-> OtherAddress(a), data |-> ""],
     block |-> [id |-> <<"block", t>>, timestamp |-> t],
     signatures |-> <<>>]

TxUniverse ==
    {IndexedTx(a, t, mc) : a \in Addresses, t \in Timestamps, mc \in ModuleCommands}

BlockIds == {<<"block", t>> : t \in Timestamps}

\* Every way of listing the set S in the order the sort parameter asks for
\* (ties, or an absent sort parameter, leave the order to the index).
Orderings(S, Key(_), dir) ==
    {s \in [1..Cardinality(S) -> S] :
        /\ \A i, j \in DOMAIN s : i /= j => s[i] /= s[j]
        /\ \A i \in DOMAIN s : i < Len(s) =>
              /\ dir = "asc" => Key(s[i]) <= Key(s[i + 1])
              /\ dir = "desc" => Key(s[i]) >= Key(s[i + 1])}

SortDir(q) ==
    IF ~Has(q, "sort") THEN "any"
    ELSE IF q.sort \in {"height:asc", "timestamp:asc"} THEN "asc" ELSE "desc"

\* The limit parameter truncates the sorted list (the service's own default
\* limit is larger than any list of this model).
Truncate(s, q) == IF Has(q, "limit") THEN Take(s, q.limit) ELSE s

BlockHeightOf(b) == b.height
TxTimestampOf(tx) == tx.block.timestamp

\* The lists the index can answer a blocks query with.
BlockAnswers(q) ==
    LET S == {BlockAt(h) : h \in {x \in blockIndex : Has(q, "height") => Matches(x, q.height)}}
    IN {Truncate(s, q) : s \in Orderings(S, BlockHeightOf, SortDir(q))}

TxMatches(tx, q) ==
    /\ Has(q, "senderAddress") => tx.sender.address = q.senderAddress
    /\ Has(q, "recipientAddress") => tx.params.recipientAddress = q.recipientAddress
    /\ Has(q, "blockID") => tx.block.id = q.blockID
    /\ Has(q, "moduleCommand") => tx.moduleCommand = q.moduleCommand
    /\ Has(q, "timestamp") => Matches(tx.block.timestamp, q.timestamp)

\* The lists the index can answer a transactions query with.
TxAnswers(q) ==
    LET S == {tx \in txIndex : TxMatches(tx, q)}
    IN {Truncate(s, q) : s \in Orderings(S, TxTimestampOf, SortDir(q))}

\* A failed request: status 404 or 500 from the service, or no response at
\* all (status 0: network error or timeout).
HttpErrors == {[status |-> 404], [status |-> 500], [status |-> 0]}
NoCause == [status |-> -1]

(***************************************************************************)
(* LiskServiceRepository (src/lisk-service/repository.js)                  *)
(***************************************************************************)
Request(path, params) == [path |-> path, params |-> params]

\* A request together with the status it was answered with (200, or the
\* status of the error axios rejected with).
Exchange(path, params, status) == Request(path, params) @@ [status |-> status]

DefaultOrder_NullToo(order) == IF order \in {"undefined", "null"} THEN "asc" ELSE order

\* `order = 'asc'`: the default applies to an omitted / undefined argument.
DefaultOrder(order) == IF order = "undefined" THEN "asc" ELSE order

OutboundTransactionsFilter_AlwaysFrom(senderAddress, fromTimestamp, limit, order) ==
    [senderAddress |-> senderAddress, limit |-> limit,
     moduleCommand |-> "token:transfer",
     sort |-> IF DefaultOrder(order) = "asc" THEN "timestamp:asc" ELSE "timestamp:desc",
     timestamp |-> Interval(fromTimestamp, Empty)]

\* getOutboundTransactions: the filter parameters it builds.
OutboundTransactionsFilter(senderAddress, fromTimestamp, limit, order) ==
    LET base == [senderAddress |-> senderAddress, limit |-> limit,
                 moduleCommand |-> "token:transfer"]
    IN IF DefaultOrder(order) = "asc"
         THEN base @@ [sort |-> "timestamp:asc",
                       timestamp |-> Interval(fromTimestamp, Empty)]
         ELSE base @@ [sort |-> "timestamp:desc",
                       timestamp |-> Interval(0, fromTimestamp)]

InboundTransactionsFromBlockFilter_NoModule(recipientAddress, blockId) ==
    [recipientAddress |-> recipientAddress, blockID |-> blockId]

\* getInboundTransactionsFromBlock: the filter parameters it builds.
InboundTransactionsFromBlockFilter(recipientAddress, blockId) ==
    [recipientAddress |-> recipientAddress, blockID |-> blockId,
     moduleCommand |-> "token:transfer"]

\* getOutboundTransactionsFromBlock: the filter parameters it builds.
OutboundTransactionsFromBlockFilter(senderAddress, blockId) ==
    [senderAddress |-> senderAddress, blockID |-> blockId,
     moduleCommand |-> "token:transfer"]

\* getBlocksBetweenHeights: a missing bound is rendered as ''.
HeightString(h) == IF h = Null THEN Empty ELSE h

BlocksBetweenHeightsFilter_LimitAfterTrim(fromHeight, toHeight, limit) ==
    [height |-> Interval(HeightString(fromHeight), HeightString(toHeight)),
     sort |-> "height:asc", limit |-> limit + 1]

BlocksBetweenHeightsFilter(fromHeight, toHeight, limit) ==
    [height |-> Interval(HeightString(fromHeight), HeightString(toHeight)),
     sort |-> "height:asc", limit |-> limit]

\* getBlockAtHeight: the filter parameters it builds.
BlockAtHeightFilter(height) == [height |-> Exact(height)]

LastBlockFilter_Ascending == [sort |-> "height:asc", limit |-> 1]

\* getLastBlock: the filter parameters it builds.
LastBlockFilter == [sort |-> "height:desc", limit |-> 1]

\* The null that firstOrNull gives for an empty list.
NullBlock ==
    [id |-> <<"null">>, height |-> Null, timestamp |-> Null,
     numberOfTransactions |-> Null, generatorAddress |-> "null"]

\* firstOrNull(list) of common/utils.
firstOrNull(list) == IF Len(list) > 0 THEN list[1] ELSE NullBlock

StripFirst_Never(blocks, fromHeight) == blocks

\* getBlocksBetweenHeights: drop the first block when it sits at fromHeight.
StripFirst(blocks, fromHeight) ==
    IF Len(blocks) > 0 /\ blocks[1].height = fromHeight THEN Tail(blocks) ELSE blocks

(***************************************************************************)
(* LiskV3DEXAdapter query actions (src/liskv3/adapter.js, mapper.js)       *)
(***************************************************************************)
notFound_Never(err) == FALSE

notFound(err) == err.status = 404

InvalidActionError(name, cause) ==
    [type |-> "InvalidActionError", name |-> name, cause |-> cause]
NoError == [type |-> "none", name |-> "none", cause |-> NoCause]

ReplyReturn(action, params, val) ==
    [action |-> action, params |-> params, kind |-> "return", val |-> val,
     err |-> NoError]
ReplyThrow(action, params, e) ==
    [action |-> action, params |-> params, kind |-> "throw", val |-> <<>>,
     err |-> e]

blockMapper(b) ==
    [id |-> b.id, height |-> b.height, timestamp |-> b.timestamp,
     numberOfTransactions |-> b.numberOfTransactions]

\* computeDEXTransactionId(senderAddress, nonce) of common/utils.
computeDEXTransactionId(address, nonce) == <<"dexid", address, nonce>>

getBase32AddressFromPublicKey(publicKey) == <<"lsk", publicKey>>

transactionMapper_IdFromAmount(tx) ==
    [id |-> computeDEXTransactionId(tx.sender.address, tx.params.amount),
     message |-> tx.params.data,
     amount |-> tx.params.amount,
     timestamp |-> tx.block.timestamp,
     senderAddress |-> tx.sender.address,
     recipientAddress |-> tx.params.recipientAddress,
     signatures |-> tx.signatures,
     nonce |-> tx.nonce]

transactionMapper(tx) ==
    [id |-> computeDEXTransactionId(tx.sender.address, tx.nonce),
     message |-> tx.params.data,
     amount |-> tx.params.amount,
     timestamp |-> tx.block.timestamp,
     senderAddress |-> tx.sender.address,
     recipientAddress |-> tx.params.recipientAddress,
     signatures |-> tx.signatures,
     nonce |-> tx.nonce]

\* transaction.signatures[index]; "undefined" past the end of the array.
SignatureAt(signatures, i) ==
    IF i \in DOMAIN signatures THEN signatures[i] ELSE "undefined"

AdapterTransactionMapper_KeepsEmpty(tx) ==
    LET packets == [i \in DOMAIN dexMultisigPublicKeys |->
                      [signerAddress |-> getBase32AddressFromPublicKey(dexMultisigPublicKeys[i]),
                       publicKey |-> dexMultisigPublicKeys[i],
                       signature |-> SignatureAt(tx.signatures, i)]]
    IN transactionMapper([tx EXCEPT !.signatures = packets])

\* this.transactionMapper: pair signatures[i] with member key M[i], drop the
\* entries without a signature, then map.
AdapterTransactionMapper(tx) ==
    LET packets == [i \in DOMAIN dexMultisigPublicKeys |->
                      [signerAddress |-> getBase32AddressFromPublicKey(dexMultisigPublicKeys[i]),
                       publicKey |-> dexMultisigPublicKeys[i],
                       signature |-> SignatureAt(tx.signatures, i)]]
    IN transactionMapper(
          [tx EXCEPT !.signatures =
              SelectSeq(packets, LAMBDA p : p.signature \notin {"", "undefined"})])

\* No action has been handled yet.  The query handlers keep no state of
\* their own, so a behaviour handles one action, from any index content.
Ready == reply.kind = "none"

\* The catch block shared by the list-returning actions.
ListActionCatch(action, params, err, name) ==
    IF notFound(err) THEN ReplyReturn(action, params, <<>>)
    ELSE ReplyThrow(action, params, InvalidActionError(name, err))

GetBlocksBetweenHeights ==
    /\ Ready
    /\ \E fromHeight \in Heights \cup {Null}, toHeight \in Heights \cup {Null},
       limit \in Limits :
      LET q == BlocksBetweenHeightsFilter(fromHeight, toHeight, limit)
          params == [fromHeight |-> fromHeight, toHeight |-> toHeight, limit |-> limit]
      IN /\ \/ /\ sent' = Exchange(BlocksPath, q, 200)
               /\ \E blocks \in BlockAnswers(q) :
                    reply' = ReplyReturn("getBlocksBetweenHeights", params,
                              MapSeq(blockMapper, StripFirst(blocks, fromHeight)))
            \/ \E err \in HttpErrors :
                 /\ sent' = Exchange(BlocksPath, q, err.status)
                 /\ reply' = ListActionCatch("getBlocksBetweenHeights", params, err,
                                          "BlockDidNotExistError")
         /\ UNCHANGED <<clientVars, indexVars, adapterVars>>

BlockAtHeightResult_ReturnsNull(params, block) ==
    ReplyReturn("getBlockAtHeight", params, blockMapper(block))

\* getBlockAtHeight, once the repository has answered: the mapped block, or
\* the not-found error when there is none.
BlockAtHeightResult(params, block) ==
    IF block /= NullBlock
      THEN ReplyReturn("getBlockAtHeight", params, blockMapper(block))
      ELSE ReplyThrow("getBlockAtHeight", params,
                      InvalidActionError("BlockDidNotExistError", NoCause))

GetBlockAtHeight ==
    /\ Ready
    /\ \E height \in Heights :
      LET q == BlockAtHeightFilter(height)
          params == [height |-> height]
      IN /\ \/ /\ sent' = Exchange(BlocksPath, q, 200)
               /\ \E blocks \in BlockAnswers(q) :
                    reply' = BlockAtHeightResult(params, firstOrNull(blocks))
            \/ \E err \in HttpErrors :
                 /\ sent' = Exchange(BlocksPath, q, err.status)
                 /\ reply' = ReplyThrow("getBlockAtHeight", params,
                              InvalidActionError("BlockDidNotExistError", err))
         /\ UNCHANGED <<clientVars, indexVars, adapterVars>>

\* getMaxBlockHeight, once the repository has answered: the height of the
\* last block, or the not-found error when there is none.
MaxBlockHeightResult(block) ==
    IF block /= NullBlock
      THEN ReplyReturn("getMaxBlockHeight", <<>>, block.height)
      ELSE ReplyThrow("getMaxBlockHeight", <<>>,
                      InvalidActionError("BlockDidNotExistError", NoCause))

GetMaxBlockHeight ==
    /\ Ready
    /\ \/ /\ sent' = Exchange(BlocksPath, LastBlockFilter, 200)
          /\ \E blocks \in BlockAnswers(LastBlockFilter) :
               reply' = MaxBlockHeightResult(firstOrNull(blocks))
       \/ \E err \in HttpErrors :
            /\ sent' = Exchange(BlocksPath, LastBlockFilter, err.status)
            /\ reply' = ReplyThrow("getMaxBlockHeight", <<>>,
                            InvalidActionError("BlockDidNotExistError", err))
    /\ UNCHANGED <<clientVars, indexVars, adapterVars>>

InitBlocks ==
    /\ baseUrl = PrimaryUrl
    /\ fallbacks = <<>>
    /\ logger = [c \in CallIds |-> <<>>]
    /\ calls = [c \in CallIds |-> IdleCall]
    /\ blockIndex \in SUBSET Heights
    /\ txIndex = {}
    /\ AdapterIdle
    /\ sent = NoRequest
    /\ reply = NoReply

NextBlocks ==
    \/ GetBlocksBetweenHeights
    \/ GetBlockAtHeight
    \/ GetMaxBlockHeight

SpecBlocks == InitBlocks /\ [][NextBlocks]_vars

\* C7: against an index answering inclusive height intervals, sorted
\* ascending and truncated to limit, getBlocksBetweenHeights(h1, h2, limit)
\* never returns a block at height h1; every returned block has its height
\* in (h1, h2] and the list ascends by height.
C7_BlocksInHalfOpenInterval ==
    (reply.action = "getBlocksBetweenHeights" /\ reply.kind = "return") =>
        LET h1 == reply.params.fromHeight
            h2 == reply.params.toHeight
            bs == reply.val
        IN /\ \A i \in DOMAIN bs :
                 /\ bs[i].height /= h1
                 /\ h1 /= Null => bs[i].height > h1
                 /\ h2 /= Null => bs[i].height <= h2
                 /\ bs[i].height \in blockIndex
           /\ \A i, j \in DOMAIN bs : i < j => bs[i].height < bs[j].height

C7_Witness ==
    /\ reply.action = "getBlocksBetweenHeights" /\ reply.kind = "return"
    /\ reply.params.fromHeight \in blockIndex
    /\ sent.path = BlocksPath
    /\ Len(reply.val) >= 2
    /\ reply.val[1].height > reply.params.fromHeight

(***************************************************************************)
(* Transaction queries                                                     *)
(***************************************************************************)
Orders == {"asc", "desc", "undefined", "null", "ASC"}

\* The adapter after load: the member keys of the DEX account.
LoadedMemberKeys == <<"pk1", "pk2">>

GetOutboundTransactions ==
    /\ Ready
    /\ \E walletAddress \in Addresses, fromTimestamp \in Timestamps,
       limit \in Limits, order \in Orders :
      LET q == OutboundTransactionsFilter(walletAddress, fromTimestamp, limit, order)
          params == [walletAddress |-> walletAddress, fromTimestamp |-> fromTimestamp,
                     limit |-> limit, order |-> order]
      IN /\ \/ /\ sent' = Exchange(TransactionsPath, q, 200)
               /\ \E transactions \in TxAnswers(q) :
                    reply' = ReplyReturn("getOutboundTransactions", params,
                              MapSeq(AdapterTransactionMapper, transactions))
            \/ \E err \in HttpErrors :
                 /\ sent' = Exchange(TransactionsPath, q, err.status)
                 /\ reply' = ListActionCatch("getOutboundTransactions", params, err,
                                          "AccountDidNotExistError")
         /\ UNCHANGED <<clientVars, indexVars, adapterVars>>

GetInboundTransactionsFromBlock ==
    /\ Ready
    /\ \E walletAddress \in Addresses, blockId \in BlockIds :
      LET q == InboundTransactionsFromBlockFilter(walletAddress, blockId)
          params == [walletAddress |-> walletAddress, blockId |-> blockId]
      IN /\ \/ /\ sent' = Exchange(TransactionsPath, q, 200)
               /\ \E transactions \in TxAnswers(q) :
                    reply' = ReplyReturn("getInboundTransactionsFromBlock", params,
                              MapSeq(AdapterTransactionMapper, transactions))
            \/ \E err \in HttpErrors :
                 /\ sent' = Exchange(TransactionsPath, q, err.status)
                 /\ reply' = ListActionCatch("getInboundTransactionsFromBlock", params, err,
                                          "AccountDidNotExistError")
         /\ UNCHANGED <<clientVars, indexVars, adapterVars>>

GetOutboundTransactionsFromBlock ==
    /\ Ready
    /\ \E walletAddress \in Addresses, blockId \in BlockIds :
      LET q == OutboundTransactionsFromBlockFilter(walletAddress, blockId)
          params == [walletAddress |-> walletAddress, blockId |-> blockId]
      IN /\ \/ /\ sent' = Exchange(TransactionsPath, q, 200)
               /\ \E transactions \in TxAnswers(q) :
                    reply' = ReplyReturn("getOutboundTransactionsFromBlock", params,
                              MapSeq(AdapterTransactionMapper, transactions))
            \/ \E err \in HttpErrors :
                 /\ sent' = Exchange(TransactionsPath, q, err.status)
                 /\ reply' = ListActionCatch("getOutboundTransactionsFromBlock", params, err,
                                          "AccountDidNotExistError")
         /\ UNCHANGED <<clientVars, indexVars, adapterVars>>

InitTxs ==
    /\ baseUrl = PrimaryUrl
    /\ fallbacks = <<>>
    /\ logger = [c \in CallIds |-> <<>>]
    /\ calls = [c \in CallIds |-> IdleCall]
    /\ blockIndex = {}
    /\ txIndex \in {S \in SUBSET TxUniverse : Cardinality(S) <= MaxTxs}
    /\ accountAuth = [mandatoryKeys |-> <<>>, optionalKeys |-> LoadedMemberKeys,
                      numberOfSignatures |-> 1]
    /\ dexWalletAddress = DexWallet
    /\ channel = "channel"
    /\ channelLog = <<"invoke app:updateModuleState", "publish bootstrap">>
    /\ adapterPc = "loaded"
    /\ dexMultisigPublicKeys = LoadedMemberKeys
    /\ dexNumberOfSignatures = 1
    /\ sent = NoRequest
    /\ reply = NoReply

NextTxs ==
    \/ GetOutboundTransactions
    \/ GetInboundTransactionsFromBlock
    \/ GetOutboundTransactionsFromBlock

SpecTxs == InitTxs /\ [][NextTxs]_vars

Ascending(ts) == \A i, j \in DOMAIN ts : i < j => ts[i].timestamp <= ts[j].timestamp
Descending(ts) == \A i, j \in DOMAIN ts : i < j => ts[i].timestamp >= ts[j].timestamp

\* C8: against an index applying the sent filters faithfully,
\* getOutboundTransactions(addr, t, limit, order) with order 'asc' or omitted
\* sends timestamp 't:' with sort timestamp:asc and returns only transactions
\* of sender addr with timestamp >= t, ascending; with order 'desc' it sends
\* timestamp '0:t' with sort timestamp:desc and returns only transactions of
\* sender addr with timestamp <= t, descending; never more than limit.
C8_OutboundTransactionsWindow ==
    (reply.action = "getOutboundTransactions" /\ reply.params.order \in {"asc", "undefined", "desc"}) =>
        LET addr == reply.params.walletAddress
            t == reply.params.fromTimestamp
            txs == reply.val
            asc == reply.params.order \in {"asc", "undefined"}
        IN /\ sent.params.sort = IF asc THEN "timestamp:asc" ELSE "timestamp:desc"
           /\ sent.params.timestamp = IF asc THEN Interval(t, Empty) ELSE Interval(0, t)
           /\ reply.kind = "return" =>
                /\ Len(txs) <= reply.params.limit
                /\ \A i \in DOMAIN txs :
                      /\ txs[i].senderAddress = addr
                      /\ asc => txs[i].timestamp >= t
                      /\ ~asc => txs[i].timestamp <= t
                /\ asc => Ascending(txs)
                /\ ~asc => Descending(txs)

C8_Witness ==
    /\ reply.action = "getOutboundTransactions" /\ reply.kind = "return"
    /\ reply.params.order = "desc"
    /\ reply.params.fromTimestamp < MaxTime
    /\ Len(reply.val) = 2
    /\ reply.val[1].timestamp > reply.val[2].timestamp
    /\ \E tx \in txIndex : tx.block.timestamp > reply.params.fromTimestamp
                            /\ tx.sender.address = reply.params.walletAddress

TxActions ==
    {"getOutboundTransactions", "getInboundTransactionsFromBlock",
     "getOutboundTransactionsFromBlock"}

\* C9: every transaction query sent by getOutboundTransactions,
\* getInboundTransactionsFromBlock and getOutboundTransactionsFromBlock
\* carries moduleCommand = 'token:transfer' next to its address filter and,
\* for the FromBlock variants, the exact blockID.
C9_TransferFilterAlwaysSent ==
    reply.action \in TxActions =>
        /\ sent.path = TransactionsPath
        /\ Has(sent.params, "moduleCommand")
        /\ sent.params.moduleCommand = "token:transfer"
        /\ reply.action = "getInboundTransactionsFromBlock" =>
              /\ Has(sent.params, "recipientAddress")
              /\ sent.params.recipientAddress = reply.params.walletAddress
        /\ reply.action /= "getInboundTransactionsFromBlock" =>
              /\ Has(sent.params, "senderAddress")
              /\ sent.params.senderAddress = reply.params.walletAddress
        /\ reply.action /= "getOutboundTransactions" =>
              /\ Has(sent.params, "blockID")
              /\ sent.params.blockID = reply.params.blockId
        /\ reply.kind = "return" =>
              \A i \in DOMAIN reply.val :
                 \E tx \in txIndex : /\ tx.moduleCommand = "token:transfer"
                                     /\ reply.val[i] = AdapterTransactionMapper(tx)

C9_Witness ==
    /\ reply.action = "getInboundTransactionsFromBlock" /\ reply.kind = "return"
    /\ Len(reply.val) = 1
    /\ \E tx \in txIndex : /\ tx.moduleCommand /= "token:transfer"
                           /\ tx.params.recipientAddress = reply.params.walletAddress
                           /\ tx.block.id = reply.params.blockId

(***************************************************************************)
(* load and postTransaction (src/liskv3/adapter.js)                        *)
(***************************************************************************)
PublicKeys == {"pk1", "pk2", "pk3"}

\* Sequences without repetition over S, of length at most n.
DistinctSeqs(S, n) ==
    UNION {{q \in [1..k -> S] : \A i, j \in 1..k : i /= j => q[i] /= q[j]} : k \in 0..n}

Range(q) == {q[i] : i \in DOMAIN q}

\* The auth records an account of the chain can have: no keys and threshold
\* 0 (not multisig), or disjoint key lists with a threshold between the
\* number of mandatory keys (at least 1) and the number of all keys.
AuthRecords ==
    {[mandatoryKeys |-> m, optionalKeys |-> o, numberOfSignatures |-> n] :
        m \in DistinctSeqs(PublicKeys, MaxMandatory),
        o \in DistinctSeqs(PublicKeys, MaxOptional),
        n \in 0..(MaxMandatory + MaxOptional)}

ValidAuth(a) ==
    /\ Range(a.mandatoryKeys) \cap Range(a.optionalKeys) = {}
    /\ IF a.numberOfSignatures = 0
         THEN Len(a.mandatoryKeys) + Len(a.optionalKeys) = 0
         ELSE /\ a.numberOfSignatures >= Len(a.mandatoryKeys)
              /\ a.numberOfSignatures <= Len(a.mandatoryKeys) + Len(a.optionalKeys)

RECURSIVE Dedup(_)
\* Array.from(new Set(keys)): first occurrences, in order.
Dedup(keys) ==
    IF keys = <<>> THEN <<>>
    ELSE LET front == Dedup(SubSeq(keys, 1, Len(keys) - 1))
             last == keys[Len(keys)]
         IN IF last \in Range(front) THEN front ELSE Append(front, last)

\* load: the member list it stores.
MemberKeysOf(auth) == Dedup(auth.mandatoryKeys \o auth.optionalKeys)

LoadStart_InvokeFirst ==
    /\ adapterPc = "constructed"
    /\ channel' = "channel"
    /\ channelLog' = Append(channelLog, "invoke app:updateModuleState")
    /\ adapterPc' = IF dexWalletAddress = "" THEN "failed:config" ELSE "invoking"
    /\ UNCHANGED <<clientVars, indexVars, dexWalletAddress, dexMultisigPublicKeys,
                   dexNumberOfSignatures, sent, reply>>

\* load, up to its first await: the configuration check, then
\* app:updateModuleState is invoked on the channel.
LoadStart ==
    /\ adapterPc = "constructed"
    /\ IF dexWalletAddress = ""
         THEN /\ adapterPc' = "failed:config"
              /\ UNCHANGED <<channel, channelLog>>
         ELSE /\ channel' = "channel"
              /\ channelLog' = Append(channelLog, "invoke app:updateModuleState")
              /\ adapterPc' = "invoking"
    /\ UNCHANGED <<clientVars, indexVars, dexWalletAddress, dexMultisigPublicKeys,
                   dexNumberOfSignatures, sent, reply>>

LoadInvoked_NoPublish ==
    /\ adapterPc = "invoking"
    /\ \/ /\ adapterPc' = "publishing"
          /\ UNCHANGED channelLog
       \/ /\ adapterPc' = "failed:invoke"
          /\ UNCHANGED channelLog
    /\ UNCHANGED <<clientVars, indexVars, dexWalletAddress, channel,
                   dexMultisigPublicKeys, dexNumberOfSignatures, sent, reply>>

\* The invoke settles; on success the bootstrap event is published.
LoadInvoked ==
    /\ adapterPc = "invoking"
    /\ \/ /\ channelLog' = Append(channelLog, "publish bootstrap")
          /\ adapterPc' = "publishing"
       \/ /\ adapterPc' = "failed:invoke"
          /\ UNCHANGED channelLog
    /\ UNCHANGED <<clientVars, indexVars, dexWalletAddress, channel,
                   dexMultisigPublicKeys, dexNumberOfSignatures, sent, reply>>

\* The publish settles; on success the auth record of the DEX wallet is
\* requested.
LoadPublished ==
    /\ adapterPc = "publishing"
    /\ \/ /\ sent' = Request("/api/v3/auth", [address |-> dexWalletAddress])
          /\ adapterPc' = "fetching"
       \/ /\ adapterPc' = "failed:publish"
          /\ UNCHANGED sent
    /\ UNCHANGED <<clientVars, indexVars, dexWalletAddress, channel, channelLog,
                   dexMultisigPublicKeys, dexNumberOfSignatures, reply>>

\* The auth request settles; on success M and T are stored.
LoadFetched ==
    /\ adapterPc = "fetching"
    /\ \/ /\ dexMultisigPublicKeys' = MemberKeysOf(accountAuth)
          /\ dexNumberOfSignatures' = accountAuth.numberOfSignatures
          /\ adapterPc' = "loaded"
       \/ /\ adapterPc' = "failed:auth"
          /\ UNCHANGED <<dexMultisigPublicKeys, dexNumberOfSignatures>>
    /\ UNCHANGED <<clientVars, indexVars, dexWalletAddress, channel, channelLog,
                   sent, reply>>

\* A signature packet as the caller supplies it.
Packet(pk, sig) ==
    [signerAddress |-> getBase32AddressFromPublicKey(pk), publicKey |-> pk,
     signature |-> sig]

\* The hex signature a key holder produces for the transaction.
SignatureBy(pk) == IF pk = "pk1" THEN "a1" ELSE IF pk = "pk2" THEN "a2" ELSE "a3"

\* The packets a caller can supply: per key, one with the holder's signature
\* and one with an empty signature.
PacketUniverse ==
    UNION {{Packet(pk, SignatureBy(pk)), Packet(pk, "")} : pk \in PublicKeys}

PacketLists == UNION {[1..k -> PacketUniverse] : k \in 0..MaxPackets}

\* The orders lodash.shuffle can put n elements in.
ShuffleOrders(n) == {f \in [1..n -> 1..n] : \A i, j \in 1..n : i /= j => f[i] /= f[j]}

Max(a, b) == IF a >= b THEN a ELSE b

\* Array.prototype.slice(0, end).
SliceTo(arr, end) ==
    LET e == IF end < 0 THEN Max(Len(arr) + end, 0) ELSE Min(end, Len(arr))
    IN SubSeq(arr, 1, e)

SelectSignatures_OneTooMany(signatures, perm, T) ==
    IF Len(signatures) > 0
      THEN LET rest == Tail(signatures)
               shuffled == [i \in DOMAIN rest |-> rest[perm[i]]]
           IN <<signatures[1]>> \o SliceTo(shuffled, T)
      ELSE <<>>

\* postTransaction: the first packet plus the first T - 1 of the shuffled
\* remaining ones (perm is the order the shuffle produced).
SelectSignatures(signatures, perm, T) ==
    IF Len(signatures) > 0
      THEN LET rest == Tail(signatures)
               shuffled == [i \in DOMAIN rest |-> rest[perm[i]]]
           IN <<signatures[1]>> \o SliceTo(shuffled, T - 1)
      ELSE <<>>

HexDecode_Placeholder(hex) ==
    IF hex \in {"a1", "A1"} THEN <<161>> ELSE IF hex = "a2" THEN <<162>>
    ELSE IF hex = "a3" THEN <<163>> ELSE <<0>>

\* Buffer.from(signature, 'hex'): hex digits of either case are decoded,
\* a string that is not hex gives the empty buffer.
HexDecode(hex) ==
    IF hex \in {"a1", "A1"} THEN <<161>> ELSE IF hex = "a2" THEN <<162>>
    ELSE IF hex = "a3" THEN <<163>> ELSE <<>>

\* publicKeySignatures[memberPublicKey]: the last selected packet carrying
\* that publicKey, if any.
HasPacketOf(selected, pk) == \E i \in DOMAIN selected : selected[i].publicKey = pk

PacketOf(selected, pk) ==
    LET last == CHOOSE i \in DOMAIN selected :
                   /\ selected[i].publicKey = pk
                   /\ \A j \in DOMAIN selected : selected[j].publicKey = pk => j <= i
    IN selected[last]

SignatureVector_SelectedOnly(selected, members) ==
    [i \in DOMAIN selected |-> HexDecode(selected[i].signature)]

\* postTransaction: the position-addressed signature vector.
SignatureVector(selected, members) ==
    [i \in DOMAIN members |->
        HexDecode(IF HasPacketOf(selected, members[i])
                    THEN PacketOf(selected, members[i]).signature ELSE "")]

\* What can happen once the vector is assembled: a malformed transaction
\* field makes BigInt / Buffer.from / getAddressFromLisk32Address throw while
\* signedTxn is built, encoding fails, the request fails, or the service
\* answers with or without a transactionID.
PostOutcomes ==
    {"fieldError", "encodeError", "httpError", "accepted", "noTransactionID",
     "emptyResponse"}

\* The body the service answers a submission with (response.data).
ResponseOf(outcome) ==
    [present |-> outcome \in {"accepted", "noTransactionID"},
     transactionID |-> IF outcome = "accepted" THEN "tx1" ELSE "undefined"]

ValidResponse_AnyBody(response) == response.present

\* !(!response || !response.transactionID)
ValidResponse(response) ==
    response.present /\ response.transactionID \notin {"undefined", ""}

\* The errors raised inside postTransaction.
MalformedFieldError == [type |-> "SyntaxError", name |-> "SyntaxError", cause |-> NoCause]
EncodingError == [status |-> -2]
InvalidTransactionResponse == [status |-> -3]
RequestFailed == [status |-> 0]

\* The catch block of postTransaction.
BroadcastCatch(err) == InvalidActionError("TransactionBroadcastError", err)

\* How postTransaction settles: an error raised while signedTxn is built
\* is outside the try block; everything after it is inside.
PostResult(outcome) ==
    IF outcome = "fieldError" THEN MalformedFieldError
    ELSE IF outcome = "encodeError" THEN BroadcastCatch(EncodingError)
    ELSE IF outcome = "httpError" THEN BroadcastCatch(RequestFailed)
    ELSE IF ~ValidResponse(ResponseOf(outcome))
           THEN BroadcastCatch(InvalidTransactionResponse)
    ELSE NoError

ReplyPost(packets, selected, signatures, outcome) ==
    [action |-> "postTransaction",
     params |-> [signatures |-> packets],
     selected |-> selected,
     signatures |-> signatures,
     outcome |-> outcome,
     response |-> ResponseOf(outcome),
     kind |-> IF PostResult(outcome) = NoError THEN "return" ELSE "throw",
     val |-> <<>>,
     err |-> PostResult(outcome)]

\* postTransaction.  Actions are served once load has completed.
PostTransaction ==
    /\ adapterPc = "loaded"
    /\ Ready
    /\ \E packets \in PacketLists, outcome \in PostOutcomes :
       \E perm \in ShuffleOrders(Max(Len(packets) - 1, 0)) :
          LET selected == SelectSignatures(packets, perm, dexNumberOfSignatures)
              signatures == SignatureVector(selected, dexMultisigPublicKeys)
          IN /\ reply' = ReplyPost(packets, selected, signatures, outcome)
             /\ sent' = IF outcome \in {"fieldError", "encodeError"} THEN sent
                        ELSE Request(TransactionsPath,
                                     [transaction |-> [signatures |-> signatures]])
    /\ UNCHANGED <<clientVars, indexVars, adapterVars>>

InitPost ==
    /\ baseUrl = PrimaryUrl
    /\ fallbacks = <<>>
    /\ logger = [c \in CallIds |-> <<>>]
    /\ calls = [c \in CallIds |-> IdleCall]
    /\ blockIndex = {}
    /\ txIndex = {}
    /\ accountAuth \in {a \in AuthRecords : ValidAuth(a)}
    /\ dexWalletAddress \in {"", DexWallet}
    /\ channel = "undefined"
    /\ channelLog = <<>>
    /\ adapterPc = "constructed"
    /\ dexMultisigPublicKeys = Unset
    /\ dexNumberOfSignatures = 0
    /\ sent = NoRequest
    /\ reply = NoReply

NextPost ==
    \/ LoadStart
    \/ LoadInvoked
    \/ LoadPublished
    \/ LoadFetched
    \/ PostTransaction

SpecPost == InitPost /\ [][NextPost]_vars

NonEmptyEntries(vector) == {i \in DOMAIN vector : vector[i] /= <<>>}

PostedWithQuorum ==
    /\ reply.action = "postTransaction"
    /\ Len(reply.params.signatures) >= dexNumberOfSignatures

\* C10: for M and T loaded from the (multisig, T >= 1) DEX account and any
\* packet list of at least T packets, the assembled vector has exactly T
\* non-empty entries, one of them the first packet's signature, each at the
\* index in M of its packet's publicKey.
C10_QuorumOfAnyPackets ==
    (PostedWithQuorum /\ dexNumberOfSignatures >= 1) =>
        LET packets == reply.params.signatures
            vector == reply.signatures
        IN /\ Cardinality(NonEmptyEntries(vector)) = dexNumberOfSignatures
           /\ Len(packets) > 0 =>
                 \E i \in NonEmptyEntries(vector) :
                    /\ vector[i] = HexDecode(packets[1].signature)
                    /\ dexMultisigPublicKeys[i] = packets[1].publicKey
           /\ \A i \in NonEmptyEntries(vector) :
                 \E j \in DOMAIN packets :
                    /\ packets[j].publicKey = dexMultisigPublicKeys[i]
                    /\ vector[i] = HexDecode(packets[j].signature)

\* The packets come from pairwise distinct members of M and carry non-empty
\* hex signatures.
WellFormedPackets(packets) ==
    /\ \A i \in DOMAIN packets :
          /\ packets[i].publicKey \in Range(dexMultisigPublicKeys)
          /\ packets[i].signature /= ""
    /\ \A i, j \in DOMAIN packets : i /= j => packets[i].publicKey /= packets[j].publicKey

\* C10 (amended): for M and T >= 1 loaded from the DEX account and a packet
\* list of at least T packets that come from pairwise distinct members of M
\* and carry non-empty hex signatures, the assembled vector has exactly T
\* non-empty entries, one of them the first packet's signature, each at the
\* index in M of its packet's publicKey.
C10_QuorumOfMemberPackets ==
    (PostedWithQuorum /\ dexNumberOfSignatures >= 1
        /\ WellFormedPackets(reply.params.signatures)) =>
        LET packets == reply.params.signatures
            vector == reply.signatures
        IN /\ Len(vector) = Len(dexMultisigPublicKeys)
           /\ Cardinality(NonEmptyEntries(vector)) = dexNumberOfSignatures
           /\ \E i \in NonEmptyEntries(vector) :
                 /\ vector[i] = HexDecode(packets[1].signature)
                 /\ dexMultisigPublicKeys[i] = packets[1].publicKey
           /\ \A i \in NonEmptyEntries(vector) :
                 \E j \in DOMAIN packets :
                    /\ packets[j].publicKey = dexMultisigPublicKeys[i]
                    /\ vector[i] = HexDecode(packets[j].signature)

C10_Witness ==
    /\ PostedWithQuorum
    /\ dexNumberOfSignatures = 2
    /\ Len(dexMultisigPublicKeys) = 3
    /\ Len(reply.params.signatures) = 3
    /\ WellFormedPackets(reply.params.signatures)
    /\ reply.signatures[1] = <<>>
    /\ Cardinality(NonEmptyEntries(reply.signatures)) = 2

Posted == reply.action = "postTransaction"

\* C11: whatever packets postTransaction is given (none, fewer than T, T or
\* more, in any order), the signatures vector it assembles and places in the
\* payload has length |M|; entry i is the decoded signature of the selected
\* packet of member key M[i], or empty when no selected packet has that key.
C11_VectorLengthIsMemberCount ==
    Posted =>
        LET vector == reply.signatures
            M == dexMultisigPublicKeys
        IN /\ Len(vector) = Len(M)
           /\ \A i \in DOMAIN vector :
                 IF HasPacketOf(reply.selected, M[i])
                   THEN \E j \in DOMAIN reply.selected :
                           /\ reply.selected[j].publicKey = M[i]
                           /\ vector[i] = HexDecode(reply.selected[j].signature)
                   ELSE vector[i] = <<>>
           /\ \A j \in DOMAIN reply.selected :
                 \E k \in DOMAIN reply.params.signatures :
                    reply.selected[j] = reply.params.signatures[k]
           /\ sent.path = TransactionsPath =>
                 sent.params.transaction.signatures = vector

C11_Witness ==
    /\ Posted
    /\ sent.path = TransactionsPath
    /\ dexNumberOfSignatures = 2
    /\ Len(dexMultisigPublicKeys) = 3
    /\ Len(reply.params.signatures) = 1
    /\ Len(sent.params.transaction.signatures) = 3
    /\ Cardinality(NonEmptyEntries(sent.params.transaction.signatures)) = 1

\* C12: postTransaction returns without error only if the submission got a
\* response that is present and contains a transactionID; when the request
\* returned but the response is empty or lacks transactionID, it fails with
\* the TransactionBroadcastError kind of InvalidActionError.
C12_SuccessRequiresTransactionID ==
    Posted =>
        /\ reply.kind = "return" =>
              /\ sent.path = TransactionsPath
              /\ reply.response.present
              /\ reply.response.transactionID /= "undefined"
        /\ reply.outcome \in {"noTransactionID", "emptyResponse"} =>
              /\ sent.path = TransactionsPath
              /\ reply.kind = "throw"
              /\ reply.err.type = "InvalidActionError"
              /\ reply.err.name = "TransactionBroadcastError"

C12_Witness ==
    /\ Posted
    /\ reply.outcome = "noTransactionID"
    /\ reply.response.present
    /\ reply.kind = "throw"
    /\ reply.err.name = "TransactionBroadcastError"

\* C17: every failure that escapes an action handler is an
\* InvalidActionError, and an unexpected inner failure (transport error,
\* malformed response, malformed transaction field) is wrapped with its
\* cause attached; no raw error reaches the caller.
C17_EveryFailureIsInvalidActionError ==
    reply.kind = "throw" =>
        /\ reply.err.type = "InvalidActionError"
        /\ (Posted /\ reply.outcome \in {"fieldError", "encodeError", "httpError"}) =>
              reply.err.cause /= NoCause

\* C20: load fails with a configuration error when dexWalletAddress is
\* missing, before any effect: nothing was invoked or published on the
\* channel, no auth request was sent, and channel, M and T are unchanged.
C20_ConfigErrorBeforeEffects ==
    /\ dexWalletAddress = "" => adapterPc \in {"constructed", "failed:config"}
    /\ adapterPc = "failed:config" =>
          /\ dexWalletAddress = ""
          /\ channel = "undefined"
          /\ channelLog = <<>>
          /\ sent = NoRequest
          /\ dexMultisigPublicKeys = Unset
          /\ dexNumberOfSignatures = 0

C20_Witness ==
    /\ adapterPc = "failed:config"
    /\ dexWalletAddress = ""
    /\ accountAuth.numberOfSignatures > 0

(***************************************************************************)
(* transactionMapper as a function of its input (src/liskv3/mapper.js)     *)
(***************************************************************************)
\* Transactions differing in every field the mapper reads.
MappableTx(a, n, amount, r, data, t, sigs) ==
    [id |-> <<a, n, amount>>, moduleCommand |-> "token:transfer", nonce |-> n,
     sender |-> [address |-> a],
     params |-> [amount |-> amount, recipientAddress |-> r, data |-> data],
     block |-> [id |-> <<"block", t>>, timestamp |-> t],
     signatures |-> sigs]

MapperUniverse ==
    {MappableTx(a, n, amount, r, data, t, sigs) :
        a \in Addresses, n \in {0, 1}, amount \in {1, 2}, r \in Addresses,
        data \in {"", "memo"}, t \in {0, 1},
        sigs \in {<<>>, <<Packet("pk1", "a1")>>}}

\* Two runs of transactionMapper, on transactions of the index.
MapTransactions ==
    /\ Ready
    /\ \E tx1 \in txIndex, tx2 \in txIndex :
          reply' = ReplyReturn("transactionMapper", <<tx1, tx2>>,
                               <<transactionMapper(tx1), transactionMapper(tx2)>>)
    /\ UNCHANGED <<clientVars, indexVars, adapterVars, sent>>

InitMapper ==
    /\ baseUrl = PrimaryUrl
    /\ fallbacks = <<>>
    /\ logger = [c \in CallIds |-> <<>>]
    /\ calls = [c \in CallIds |-> IdleCall]
    /\ blockIndex = {}
    /\ txIndex \in {{tx1, tx2} : tx1 \in MapperUniverse, tx2 \in MapperUniverse}
    /\ AdapterIdle
    /\ sent = NoRequest
    /\ reply = NoReply

NextMapper ==
    \/ MapTransactions

SpecMapper == InitMapper /\ [][NextMapper]_vars

Mapped == reply.action = "transactionMapper"

\* C13: the id of a mapped transaction is a function of (sender address,
\* nonce) only: transactions with equal sender.address and nonce get equal
\* ids whatever their amount, recipient, data, block timestamp or
\* signatures, and mapping the same transaction twice yields the same id.
C13_IdIsFunctionOfSenderAndNonce ==
    Mapped =>
        LET tx1 == reply.params[1]
            tx2 == reply.params[2]
        IN /\ (tx1.sender.address = tx2.sender.address /\ tx1.nonce = tx2.nonce) =>
                 reply.val[1].id = reply.val[2].id
           /\ tx1 = tx2 => reply.val[1] = reply.val[2]
           /\ \A i \in 1..2 :
                 reply.val[i].id =
                    computeDEXTransactionId(reply.params[i].sender.address,
                                            reply.params[i].nonce)

C13_Witness ==
    /\ Mapped
    /\ reply.params[1].sender.address = reply.params[2].sender.address
    /\ reply.params[1].nonce = reply.params[2].nonce
    /\ reply.params[1].params.amount /= reply.params[2].params.amount
    /\ reply.params[1].params.recipientAddress /= reply.params[2].params.recipientAddress
    /\ reply.params[1].block.timestamp /= reply.params[2].block.timestamp
    /\ reply.params[1].signatures /= reply.params[2].signatures
    /\ reply.val[1].id = reply.val[2].id

\* C14: getBlockAtHeight(h) never returns a value when the index has no
\* block at height h (empty answer, 404 or any other failure): it raises
\* an InvalidActionError of kind BlockDidNotExistError; when the block
\* exists and the request succeeds it returns that block mapped to
\* {id, height, timestamp, numberOfTransactions}.
C14_BlockAtHeightOrNotFound ==
    reply.action = "getBlockAtHeight" =>
        LET h == reply.params.height
        IN /\ sent.path = BlocksPath
           /\ sent.params = [height |-> Exact(h)]
           /\ (h \notin blockIndex \/ sent.status /= 200) => reply.kind = "throw"
           /\ reply.kind = "throw" =>
                 /\ reply.err.type = "InvalidActionError"
                 /\ reply.err.name = "BlockDidNotExistError"
                 /\ h \in blockIndex => sent.status /= 200
           /\ reply.kind = "return" =>
                 /\ h \in blockIndex
                 /\ DOMAIN reply.val = {"id", "height", "timestamp", "numberOfTransactions"}
                 /\ reply.val.height = h
                 /\ reply.val.id = BlockAt(h).id
                 /\ reply.val.timestamp = BlockAt(h).timestamp
                 /\ reply.val.numberOfTransactions = BlockAt(h).numberOfTransactions

C14_Witness ==
    /\ reply.action = "getBlockAtHeight"
    /\ reply.params.height \notin blockIndex
    /\ blockIndex /= {}
    /\ reply.kind = "throw"
    /\ reply.err.name = "BlockDidNotExistError"
    /\ reply.err.cause = NoCause

(***************************************************************************)
(* Multisig account queries (src/liskv3/adapter.js)                        *)
(***************************************************************************)
AuthPath == "/api/v3/auth"

\* The falsy value getAuth gives when the response carries no record.
NullAuth == [mandatoryKeys |-> <<>>, optionalKeys |-> <<>>, numberOfSignatures |-> Null]

WalletAddresses == Addresses \cup {DexWallet}

\* The auth record the index holds for an address: the DEX wallet is the
\* account of the model, any other address has none.
AuthOf(address) == IF address = DexWallet THEN accountAuth ELSE NullAuth

isMultisigAccount(auth) == auth.numberOfSignatures > 0

RethrowOrWrap_AlwaysWraps(err, name) == InvalidActionError(name, err)

\* The catch block of the single-entity actions: an InvalidActionError is
\* rethrown as it is, any other error is wrapped under the given name.
RethrowOrWrap(err, name) ==
    IF "type" \in DOMAIN err /\ err.type = "InvalidActionError" THEN err
    ELSE InvalidActionError(name, err)

\* The try block of both account actions up to the return statement: the
\* error it throws, or NoError.
AuthCheck(auth) ==
    IF auth /= NullAuth
      THEN IF ~isMultisigAccount(auth)
             THEN InvalidActionError("AccountWasNotMultisigError", NoCause)
             ELSE NoError
      ELSE InvalidActionError("MultisigAccountDidNotExistError", NoCause)

\* getMultisigWalletMembers, once the repository has answered.
MultisigWalletMembersResult(params, auth) ==
    IF AuthCheck(auth) = NoError
      THEN ReplyReturn("getMultisigWalletMembers", params,
              [i \in DOMAIN auth.optionalKeys |->
                  getBase32AddressFromPublicKey(auth.optionalKeys[i])])
      ELSE ReplyThrow("getMultisigWalletMembers", params,
              RethrowOrWrap(AuthCheck(auth), "MultisigAccountDidNotExistError"))

GetMultisigWalletMembers ==
    /\ Ready
    /\ \E walletAddress \in WalletAddresses :
      LET q == [address |-> walletAddress]
          params == [walletAddress |-> walletAddress]
      IN /\ \/ /\ sent' = Exchange(AuthPath, q, 200)
               /\ reply' = MultisigWalletMembersResult(params, AuthOf(walletAddress))
            \/ \E err \in HttpErrors :
                 /\ sent' = Exchange(AuthPath, q, err.status)
                 /\ reply' = ReplyThrow("getMultisigWalletMembers", params,
                                 RethrowOrWrap(err, "MultisigAccountDidNotExistError"))
         /\ UNCHANGED <<clientVars, indexVars, adapterVars>>

MinMultisigRequiredSignaturesResult_ZeroForMissing(params, auth) ==
    IF auth = NullAuth
      THEN ReplyReturn("getMinMultisigRequiredSignatures", params, 0)
    ELSE IF AuthCheck(auth) = NoError
      THEN ReplyReturn("getMinMultisigRequiredSignatures", params, auth.numberOfSignatures)
      ELSE ReplyThrow("getMinMultisigRequiredSignatures", params,
              RethrowOrWrap(AuthCheck(auth), "MultisigAccountDidNotExistError"))

\* getMinMultisigRequiredSignatures, once the repository has answered.
MinMultisigRequiredSignaturesResult(params, auth) ==
    IF AuthCheck(auth) = NoError
      THEN ReplyReturn("getMinMultisigRequiredSignatures", params, auth.numberOfSignatures)
      ELSE ReplyThrow("getMinMultisigRequiredSignatures", params,
              RethrowOrWrap(AuthCheck(auth), "MultisigAccountDidNotExistError"))

GetMinMultisigRequiredSignatures ==
    /\ Ready
    /\ \E walletAddress \in WalletAddresses :
      LET q == [address |-> walletAddress]
          params == [walletAddress |-> walletAddress]
      IN /\ \/ /\ sent' = Exchange(AuthPath, q, 200)
               /\ reply' = MinMultisigRequiredSignaturesResult(params, AuthOf(walletAddress))
            \/ \E err \in HttpErrors :
                 /\ sent' = Exchange(AuthPath, q, err.status)
                 /\ reply' = ReplyThrow("getMinMultisigRequiredSignatures", params,
                                 RethrowOrWrap(err, "MultisigAccountDidNotExistError"))
         /\ UNCHANGED <<clientVars, indexVars, adapterVars>>

InitAuth ==
    /\ baseUrl = PrimaryUrl
    /\ fallbacks = <<>>
    /\ logger = [c \in CallIds |-> <<>>]
    /\ calls = [c \in CallIds |-> IdleCall]
    /\ blockIndex = {}
    /\ txIndex = {}
    /\ accountAuth \in {a \in AuthRecords : ValidAuth(a)} \cup {NullAuth}
    /\ dexWalletAddress = DexWallet
    /\ channel = "undefined"
    /\ channelLog = <<>>
    /\ adapterPc = "constructed"
    /\ dexMultisigPublicKeys = Unset
    /\ dexNumberOfSignatures = 0
    /\ sent = NoRequest
    /\ reply = NoReply

NextAuth ==
    \/ GetMultisigWalletMembers
    \/ GetMinMultisigRequiredSignatures

SpecAuth == InitAuth /\ [][NextAuth]_vars

AuthActions == {"getMultisigWalletMembers", "getMinMultisigRequiredSignatures"}

\* The auth lookup of the reply's action succeeded and gave a record.
AuthAnswered ==
    /\ reply.action \in AuthActions
    /\ sent.status = 200
    /\ AuthOf(reply.params.walletAddress) /= NullAuth

\* C15: for an existing account whose auth record has numberOfSignatures
\* = 0, getMultisigWalletMembers and getMinMultisigRequiredSignatures raise
\* InvalidActionError AccountWasNotMultisigError (not the did-not-exist
\* kind, not re-wrapped); they return only when numberOfSignatures > 0, and
\* getMinMultisigRequiredSignatures then returns exactly numberOfSignatures.
C15_NotMultisigIsTypedError ==
    reply.action \in AuthActions =>
        LET auth == AuthOf(reply.params.walletAddress)
        IN /\ (AuthAnswered /\ auth.numberOfSignatures = 0) =>
                 /\ reply.kind = "throw"
                 /\ reply.err = InvalidActionError("AccountWasNotMultisigError", NoCause)
           /\ reply.kind = "return" =>
                 /\ AuthAnswered
                 /\ auth.numberOfSignatures > 0
           /\ (reply.kind = "return" /\ reply.action = "getMinMultisigRequiredSignatures") =>
                 reply.val = auth.numberOfSignatures

C15_Witness ==
    /\ AuthAnswered
    /\ reply.action = "getMultisigWalletMembers"
    /\ accountAuth.numberOfSignatures = 0
    /\ reply.kind = "throw"
    /\ reply.err.name = "AccountWasNotMultisigError"

\* C18: for a multisig account getMultisigWalletMembers returns one address
\* for every key of mandatoryKeys \cup optionalKeys (de-duplicated, in
\* order), for every combination of mandatory and optional keys.
C18_MembersAreAllKeys ==
    (reply.action = "getMultisigWalletMembers" /\ reply.kind = "return") =>
        LET M == MemberKeysOf(AuthOf(reply.params.walletAddress))
        IN reply.val = [i \in DOMAIN M |-> getBase32AddressFromPublicKey(M[i])]

\* C19: when the wallet address does not exist (the auth lookup fails with
\* 404 or any other error, or gives no record), both account actions raise
\* InvalidActionError MultisigAccountDidNotExistError and return no value.
C19_MissingAccountIsTypedError ==
    (/\ reply.action \in AuthActions
     /\ \/ sent.status /= 200
        \/ AuthOf(reply.params.walletAddress) = NullAuth) =>
        /\ reply.kind = "throw"
        /\ reply.err.type = "InvalidActionError"
        /\ reply.err.name = "MultisigAccountDidNotExistError"
        /\ sent.status /= 200 => reply.err.cause = [status |-> sent.status]

C19_Witness ==
    /\ reply.action = "getMinMultisigRequiredSignatures"
    /\ sent.status = 200
    /\ AuthOf(reply.params.walletAddress) = NullAuth
    /\ accountAuth.numberOfSignatures > 0
    /\ reply.kind = "throw"
    /\ reply.err.name = "MultisigAccountDidNotExistError"

(***************************************************************************)
(* All query actions of a loaded adapter side by side                      *)
(***************************************************************************)
\* The index holds blocks, or at most one transaction, or the auth record
\* of the DEX wallet the adapter was loaded from.
InitQueries ==
    /\ baseUrl = PrimaryUrl
    /\ fallbacks = <<>>
    /\ logger = [c \in CallIds |-> <<>>]
    /\ calls = [c \in CallIds |-> IdleCall]
    /\ \/ /\ blockIndex \in SUBSET Heights
          /\ txIndex = {}
          /\ accountAuth = NoAuth
       \/ /\ blockIndex = {}
          /\ txIndex \in {{tx} : tx \in TxUniverse}
          /\ accountAuth = NoAuth
       \/ /\ blockIndex = {}
          /\ txIndex = {}
          /\ accountAuth \in {a \in AuthRecords : ValidAuth(a)}
    /\ dexWalletAddress = DexWallet
    /\ channel = "channel"
    /\ channelLog = <<"invoke app:updateModuleState", "publish bootstrap">>
    /\ adapterPc = "loaded"
    /\ dexMultisigPublicKeys = MemberKeysOf(accountAuth)
    /\ dexNumberOfSignatures = accountAuth.numberOfSignatures
    /\ sent = NoRequest
    /\ reply = NoReply

NextQueries ==
    \/ GetMultisigWalletMembers
    \/ GetMinMultisigRequiredSignatures
    \/ GetOutboundTransactions
    \/ GetInboundTransactionsFromBlock
    \/ GetOutboundTransactionsFromBlock
    \/ GetMaxBlockHeight
    \/ GetBlocksBetweenHeights
    \/ GetBlockAtHeight

SpecQueries == InitQueries /\ [][NextQueries]_vars

ListActions ==
    {"getOutboundTransactions", "getInboundTransactionsFromBlock",
     "getOutboundTransactionsFromBlock", "getBlocksBetweenHeights"}

BlockActions == {"getBlockAtHeight", "getMaxBlockHeight"}

\* C16: when the repository fails with a 404 response, the list-returning
\* actions resolve to an empty list and raise nothing; the single-entity
\* actions raise an InvalidActionError of their entity's not-found kind:
\* MultisigAccountDidNotExistError for the account actions,
\* BlockDidNotExistError for the block actions.
C16_NotFoundMapping ==
    (reply.kind /= "none" /\ sent.status = 404) =>
        /\ reply.action \in ListActions \cup AuthActions \cup BlockActions
        /\ reply.action \in ListActions =>
              /\ reply.kind = "return"
              /\ reply.val = <<>>
        /\ reply.action \in AuthActions =>
              /\ reply.kind = "throw"
              /\ reply.err = InvalidActionError("MultisigAccountDidNotExistError",
                                                 [status |-> 404])
        /\ reply.action \in BlockActions =>
              /\ reply.kind = "throw"
              /\ reply.err = InvalidActionError("BlockDidNotExistError",
                                                 [status |-> 404])

C16_Witness ==
    /\ reply.action = "getOutboundTransactions"
    /\ sent.status = 404
    /\ reply.kind = "return"
    /\ reply.val = <<>>
    /\ \E tx \in txIndex : TxMatches(tx, sent.params)

MaxOf(S) == CHOOSE x \in S : \A y \in S : y <= x

\* C24: getLastBlock asks for blocks sorted by height descending with
\* limit 1; getMaxBlockHeight returns the height of that block, the maximum
\* height over the indexed blocks, and raises BlockDidNotExistError (never
\* a null value) when the index has no block or the lookup fails.
C24_MaxBlockHeightIsMaximum ==
    reply.action = "getMaxBlockHeight" =>
        /\ sent.path = BlocksPath
        /\ sent.params = [sort |-> "height:desc", limit |-> 1]
        /\ (blockIndex = {} \/ sent.status /= 200) =>
              /\ reply.kind = "throw"
              /\ reply.err.type = "InvalidActionError"
              /\ reply.err.name = "BlockDidNotExistError"
        /\ (blockIndex /= {} /\ sent.status = 200) =>
              /\ reply.kind = "return"
              /\ reply.val = MaxOf(blockIndex)

C24_Witness ==
    /\ reply.action = "getMaxBlockHeight"
    /\ reply.kind = "return"
    /\ Cardinality(blockIndex) >= 2
    /\ 0 \in blockIndex
    /\ reply.val = MaxOf(blockIndex)

BetweenHeightsAnswered ==
    /\ reply.action = "getBlocksBetweenHeights"
    /\ sent.status = 200

\* C25: in getBlocksBetweenHeights the limit bounds the inclusive query,
\* not the trimmed result: the result has at most limit blocks, at most
\* limit - 1 when a block at fromHeight is indexed (so limit = 1 gives an
\* empty list even if blocks in (fromHeight, toHeight] exist), and at most
\* one block, the first of the answer, is removed.
C25_LimitBoundsInclusiveQuery ==
    BetweenHeightsAnswered =>
        LET p == reply.params
        IN /\ reply.kind = "return"
           /\ sent.params.limit = p.limit
           /\ Len(reply.val) <= p.limit
           /\ p.fromHeight \in blockIndex => Len(reply.val) <= p.limit - 1
           /\ \E answer \in BlockAnswers(sent.params) :
                 \/ reply.val = [i \in DOMAIN answer |-> blockMapper(answer[i])]
                 \/ /\ Len(answer) > 0
                    /\ answer[1].height = p.fromHeight
                    /\ reply.val = [i \in DOMAIN Tail(answer) |->
                                       blockMapper(Tail(answer)[i])]

C25_Witness ==
    /\ BetweenHeightsAnswered
    /\ reply.params.limit = 1
    /\ reply.params.fromHeight \in blockIndex
    /\ reply.params.toHeight /= Null
    /\ \E h \in blockIndex :
          h > reply.params.fromHeight /\ h <= reply.params.toHeight
    /\ reply.val = <<>>

\* C30: getOutboundTransactions takes the ascending branch (timestamp
\* 'fromTimestamp:' with timestamp:asc) only when order is exactly 'asc' or
\* undefined; every other value ('desc', null, 'ASC', ...) takes the
\* descending branch (timestamp '0:fromTimestamp' with timestamp:desc); one
\* timestamp filter and one sort key are sent either way.
C30_AscendingOnlyForAscOrUndefined ==
    reply.action = "getOutboundTransactions" =>
        LET q == sent.params
            t == reply.params.fromTimestamp
        IN /\ DOMAIN q = {"senderAddress", "limit", "moduleCommand", "sort", "timestamp"}
           /\ q.sort \in {"timestamp:asc", "timestamp:desc"}
           /\ q.sort = "timestamp:asc" <=> reply.params.order \in {"asc", "undefined"}
           /\ q.sort = "timestamp:asc" => q.timestamp = Interval(t, Empty)
           /\ q.sort = "timestamp:desc" => q.timestamp = Interval(0, t)

C30_Witness ==
    /\ reply.action = "getOutboundTransactions"
    /\ reply.params.order = "null"
    /\ reply.params.fromTimestamp > 0
    /\ sent.params.sort = "timestamp:desc"
    /\ sent.params.timestamp = Interval(0, reply.params.fromTimestamp)

FullChannelLog == <<"invoke app:updateModuleState", "publish bootstrap">>

\* C26: load runs its steps in a fixed order: configuration check,
\* app:updateModuleState, publication of bootstrap (once), then the auth
\* fetch that sets M and T.  A completed load has published bootstrap; M
\* and T are unset while bootstrap is being published; a failed auth fetch
\* leaves bootstrap published and M and T unset.
C26_LoadStepsInOrder ==
    /\ Len(channelLog) <= 2
    /\ channelLog = SubSeq(FullChannelLog, 1, Len(channelLog))
    /\ adapterPc = "invoking" =>
          /\ channelLog = <<"invoke app:updateModuleState">>
          /\ sent = NoRequest
    /\ adapterPc = "publishing" =>
          /\ channelLog = FullChannelLog
          /\ sent = NoRequest
          /\ dexMultisigPublicKeys = Unset /\ dexNumberOfSignatures = 0
    /\ adapterPc = "fetching" =>
          /\ channelLog = FullChannelLog
          /\ sent = Request(AuthPath, [address |-> dexWalletAddress])
    /\ adapterPc = "loaded" =>
          /\ channelLog = FullChannelLog
          /\ dexMultisigPublicKeys = MemberKeysOf(accountAuth)
          /\ dexNumberOfSignatures = accountAuth.numberOfSignatures
    /\ adapterPc = "failed:auth" =>
          /\ channelLog = FullChannelLog
          /\ dexMultisigPublicKeys = Unset /\ dexNumberOfSignatures = 0
    /\ dexMultisigPublicKeys /= Unset => adapterPc = "loaded"

C26_Witness ==
    /\ adapterPc = "failed:auth"
    /\ channelLog = FullChannelLog
    /\ dexMultisigPublicKeys = Unset
    /\ accountAuth.numberOfSignatures > 0
    /\ sent.path = AuthPath

\* s is made of entries of t at pairwise distinct positions.
DrawnFrom(s, t) ==
    \E f \in [DOMAIN s -> DOMAIN t] :
        /\ \A i, j \in DOMAIN s : i /= j => f[i] /= f[j]
        /\ \A i \in DOMAIN s : s[i] = t[f[i]]

\* C27: for every threshold T >= 0 and packet list of length n, the
\* selected set is the first packet plus distinct packets drawn from the
\* remaining ones, min(n, max(T, 1)) packets in all; so the vector never has
\* more than max(T, 1) non-empty entries, T = 0 included.
C27_SelectedCountIsMinOfLengthAndThreshold ==
    Posted =>
        LET packets == reply.params.signatures
            selected == reply.selected
            n == Len(packets)
            T == dexNumberOfSignatures
        IN /\ Len(selected) = Min(n, Max(T, 1))
           /\ n > 0 =>
                 /\ selected[1] = packets[1]
                 /\ DrawnFrom(Tail(selected), Tail(packets))
           /\ Cardinality(NonEmptyEntries(reply.signatures)) <= Max(T, 1)

SelectedKeys == {reply.selected[j].publicKey : j \in DOMAIN reply.selected}

\* C28: in the vector built by postTransaction every non-empty entry at
\* position i is the signature of a selected packet whose publicKey is
\* M[i]; a packet of a non-member contributes no entry, two selected
\* packets with one publicKey contribute a single entry, and with zero
\* packets every entry is the empty placeholder.
C28_EntriesComeFromSelectedMembers ==
    Posted =>
        LET vector == reply.signatures
            M == dexMultisigPublicKeys
        IN /\ \A i \in NonEmptyEntries(vector) :
                 \E j \in DOMAIN reply.selected :
                    /\ reply.selected[j].publicKey = M[i]
                    /\ reply.selected[j].signature /= ""
                    /\ vector[i] = HexDecode(reply.selected[j].signature)
           /\ Cardinality(NonEmptyEntries(vector))
                 <= Cardinality(SelectedKeys \cap Range(M))
           /\ Len(reply.params.signatures) = 0 => NonEmptyEntries(vector) = {}

C28_Witness ==
    /\ Posted
    /\ Len(reply.selected) = 2
    /\ reply.selected[1].publicKey = reply.selected[2].publicKey
    /\ reply.selected[1].signature /= ""
    /\ reply.selected[1].publicKey \in Range(dexMultisigPublicKeys)
    /\ Len(dexMultisigPublicKeys) = 2
    /\ Cardinality(NonEmptyEntries(reply.signatures)) = 1

(***************************************************************************)
(* Write path followed by read path (src/liskv3/adapter.js)                *)
(***************************************************************************)
\* The hex string the index reports for signature bytes.
HexEncode(bytes) ==
    IF bytes = <<161>> THEN "a1" ELSE IF bytes = <<162>> THEN "a2"
    ELSE IF bytes = <<163>> THEN "a3" ELSE ""

\* Signature strings a packet can carry: the holder's signature, nothing,
\* upper-case hex, or a string that is not hex.
SignatureStrings(pk) == {SignatureBy(pk), "", "A1", "zz"}

\* The selected sets made of packets of pairwise distinct members of M.
MemberSelections ==
    UNION {{[i \in DOMAIN keys |-> Packet(keys[i], sigs[i])] :
               sigs \in [DOMAIN keys -> UNION {SignatureStrings(pk) : pk \in PublicKeys}]} :
           keys \in DistinctSeqs(Range(dexMultisigPublicKeys), Len(dexMultisigPublicKeys))}

\* The transaction as indexed once the assembled vector has been accepted.
IndexedWithSignatures(vector) ==
    [IndexedTx("lskA", 0, "token:transfer") EXCEPT
        !.signatures = [i \in DOMAIN vector |-> HexEncode(vector[i])]]

\* The vector postTransaction builds from a selected set is indexed and
\* read back through this.transactionMapper.
WriteThenRead ==
    /\ adapterPc = "loaded"
    /\ Ready
    /\ \E selected \in MemberSelections :
          LET vector == SignatureVector(selected, dexMultisigPublicKeys)
          IN reply' = ReplyReturn("writeThenRead", [selected |-> selected],
                          AdapterTransactionMapper(IndexedWithSignatures(vector)))
    /\ UNCHANGED <<clientVars, indexVars, adapterVars, sent>>

InitRoundTrip ==
    /\ baseUrl = PrimaryUrl
    /\ fallbacks = <<>>
    /\ logger = [c \in CallIds |-> <<>>]
    /\ calls = [c \in CallIds |-> IdleCall]
    /\ blockIndex = {}
    /\ txIndex = {}
    /\ accountAuth \in {a \in AuthRecords : ValidAuth(a)}
    /\ dexWalletAddress = DexWallet
    /\ channel = "channel"
    /\ channelLog = <<"invoke app:updateModuleState", "publish bootstrap">>
    /\ adapterPc = "loaded"
    /\ dexMultisigPublicKeys = MemberKeysOf(accountAuth)
    /\ dexNumberOfSignatures = accountAuth.numberOfSignatures
    /\ sent = NoRequest
    /\ reply = NoReply

NextRoundTrip ==
    \/ WriteThenRead

SpecRoundTrip == InitRoundTrip /\ [][NextRoundTrip]_vars

PositionIn(members, pk) == CHOOSE i \in DOMAIN members : members[i] = pk

\* The packets read back are the selected ones, in member order.
ReadBackIsSelected ==
    LET selected == reply.params.selected
        read == reply.val.signatures
        M == dexMultisigPublicKeys
    IN /\ Len(read) = Len(selected)
       /\ \A j \in DOMAIN selected :
             \E i \in DOMAIN read :
                /\ read[i].publicKey = selected[j].publicKey
                /\ read[i].signature = selected[j].signature
       /\ \A i \in DOMAIN read :
             \E j \in DOMAIN selected : read[i].publicKey = selected[j].publicKey
       /\ \A i, j \in DOMAIN read :
             i < j => PositionIn(M, read[i].publicKey) < PositionIn(M, read[j].publicKey)

\* C29: the vector postTransaction assembles from selected packets of
\* distinct members of M, read back through the adapter's
\* transactionMapper, gives exactly the selected packets (same publicKey
\* and signature each) in member order, and no packet for an unselected
\* member.
C29_RoundTripOfAnySignatures ==
    reply.action = "writeThenRead" => ReadBackIsSelected

\* Non-empty lower-case hex: the string the index reports for its bytes.
CanonicalSignatures(selected) ==
    \A j \in DOMAIN selected :
        /\ selected[j].signature /= ""
        /\ HexEncode(HexDecode(selected[j].signature)) = selected[j].signature

\* C29 (amended): the same round trip, for selected packets of distinct
\* members of M whose signatures are non-empty lower-case hex strings.
C29_RoundTripOfCanonicalSignatures ==
    (reply.action = "writeThenRead" /\ CanonicalSignatures(reply.params.selected))
        => ReadBackIsSelected

C29_Witness ==
    /\ reply.action = "writeThenRead"
    /\ CanonicalSignatures(reply.params.selected)
    /\ Len(dexMultisigPublicKeys) = 3
    /\ Len(reply.params.selected) = 2
    /\ PositionIn(dexMultisigPublicKeys, reply.params.selected[1].publicKey)
          > PositionIn(dexMultisigPublicKeys, reply.params.selected[2].publicKey)
    /\ Len(reply.val.signatures) = 2
    /\ reply.val.signatures[1].publicKey = reply.params.selected[2].publicKey

(***************************************************************************)
(* Concurrent calls on one HttpClient                                      *)
(***************************************************************************)
\* The endpoints in the order a call tries them.
EndpointOrder == <<baseUrl>> \o fallbacks

\* What a finished call's own attempts give its caller.
OutcomeOfAttempts(attempts) ==
    LET last == attempts[Len(attempts)]
    IN IF attempts[1].out = "ok"
         THEN Returned(attempts[1].val)
         ELSE IF Len(attempts) > 1 /\ last.out = "ok" /\ last.val \notin FalsyValues
                THEN Returned(last.val)
                ELSE Thrown(MkErr(0, attempts[1].val))

\* A step of the client changes the record and the warnings of one call at
\* most, and leaves the endpoints alone.
OneCallStep ==
    /\ baseUrl' = baseUrl
    /\ fallbacks' = fallbacks
    /\ \A c, d \in CallIds :
          (c /= d /\ (calls'[c] /= calls[c] \/ logger'[c] /= logger[c]))
              => (calls'[d] = calls[d] /\ logger'[d] = logger[d])
    /\ \A c \in CallIds : calls[c].pc = "done" => calls'[c] = calls[c]

\* C22: concurrent get/post calls on one client are independent under
\* every interleaving: a step touches the state of one call only, baseUrl
\* and fallbacks never change after construction, each call tries the
\* endpoints in their order, and a finished call's outcome is the one its
\* own attempts determine.
C22_ConcurrentCallsIndependent ==
    [][/\ OneCallStep
       /\ \A c \in CallIds :
             /\ \A j \in DOMAIN calls'[c].attempts :
                   /\ j <= Len(EndpointOrder)
                   /\ calls'[c].attempts[j].url = EndpointOrder[j]
             /\ calls'[c].pc = "done"
                   => calls'[c].result = OutcomeOfAttempts(calls'[c].attempts)]_vars

\* Two calls over the same two fallbacks ended differently: one returned
\* the last fallback's response, the other threw after every endpoint
\* failed.
C22_Witness ==
    /\ Len(fallbacks) = 2
    /\ fallbacks[1] /= baseUrl
    /\ Done(1) /\ Done(2)
    /\ calls[1].method = "get" /\ calls[2].method = "post"
    /\ Len(Att(1)) = 3 /\ calls[1].result.kind = "return"
    /\ Len(Att(2)) = 3 /\ AllFailed(2) /\ calls[2].result.kind = "throw"
    /\ Len(logger[1]) = 2 /\ Len(logger[2]) = 3

(***************************************************************************)
(* Building the client from the repository's configuration                 *)
(* (src/unnamed/part_000, src/lisk-service/client.js)                      *)
(***************************************************************************)
defaultTestNetUrl == "https://testnet-service.lisk.com"
defaultMainNetUrl == "https://service.lisk.com"

\* The config objects handed to the repository's constructor.
Configs ==
    [env : {"test", "main", "undefined"},
     liskServiceHost : Urls \cup {"undefined", ""},
     liskServiceHostFallbacks :
         {Unset} \cup UNION {[1..n -> Urls] : n \in 0..MaxFallbacks}]

getDefaultHttpClientConfig(config) ==
    LET defaultUrl == IF config.env = "test" THEN defaultTestNetUrl
                      ELSE defaultMainNetUrl
        liskServiceHostFallbacks ==
            IF config.liskServiceHostFallbacks = Unset THEN <<>>
            ELSE config.liskServiceHostFallbacks
    IN [baseUrl |-> IF config.liskServiceHost \notin {"undefined", ""}
                      THEN config.liskServiceHost ELSE defaultUrl,
        fallbacks |-> liskServiceHostFallbacks \o <<defaultUrl>>]

\* The repository's constructor evaluates its argument:
\* this.getDefaultHttpClientConfig(config).
GetDefaultHttpClientConfig ==
    /\ reply.action = "none"
    /\ \E config \in Configs :
          reply' = ReplyReturn("getDefaultHttpClientConfig", config,
                               getDefaultHttpClientConfig(config))
    /\ UNCHANGED <<clientVars, indexVars, adapterVars, sent>>

\* new HttpClient({config: ..., logger}): the constructor reads baseUrl and
\* fallbacks off the object it is given; a property the object does not
\* have reads as undefined.
ConstructHttpClient ==
    /\ reply.action = "getDefaultHttpClientConfig"
    /\ LET arg == [config |-> reply.val, logger |-> "logger"]
       IN /\ baseUrl' = IF "baseUrl" \in DOMAIN arg THEN arg["baseUrl"] ELSE "undefined"
          /\ fallbacks' = IF "fallbacks" \in DOMAIN arg THEN arg["fallbacks"] ELSE Unset
    /\ reply' = [reply EXCEPT !.action = "new HttpClient"]
    /\ UNCHANGED <<logger, calls, indexVars, adapterVars, sent>>

InitConfig ==
    /\ baseUrl = "undefined"
    /\ fallbacks = Unset
    /\ logger = [c \in CallIds |-> <<>>]
    /\ calls = [c \in CallIds |-> IdleCall]
    /\ blockIndex = {}
    /\ txIndex = {}
    /\ AdapterIdle
    /\ sent = NoRequest
    /\ reply = NoReply

NextConfig ==
    \/ GetDefaultHttpClientConfig
    \/ ConstructHttpClient

SpecConfig == InitConfig /\ [][NextConfig]_vars

\* The endpoints the configuration stands for.
ConfiguredEndpoints(config) ==
    LET defaultUrl == IF config.env = "test" THEN "https://testnet-service.lisk.com"
                      ELSE "https://service.lisk.com"
    IN [baseUrl |-> IF config.liskServiceHost \in Urls
                      THEN config.liskServiceHost ELSE defaultUrl,
        fallbacks |-> (IF config.liskServiceHostFallbacks = Unset THEN <<>>
                       ELSE config.liskServiceHostFallbacks) \o <<defaultUrl>>]

\* C21: the endpoint set built from the configuration has the configured
\* host (or, when unset, the default URL of the environment) as primary,
\* and as fallbacks the configured ones in their order followed by the
\* default URL, so the fallback sequence is never empty and ends with the
\* default URL.
C21_EndpointSetFromConfiguration ==
    reply.action = "new HttpClient" =>
        /\ baseUrl = ConfiguredEndpoints(reply.params).baseUrl
        /\ fallbacks = ConfiguredEndpoints(reply.params).fallbacks
        /\ Len(fallbacks) >= 1
        /\ fallbacks[Len(fallbacks)] \in {"https://testnet-service.lisk.com",
                                          "https://service.lisk.com"}

(***************************************************************************)
(* The repository's requests and the fallback chain                        *)
(* (src/lisk-service/repository.js)                                        *)
(***************************************************************************)
\* A loaded adapter over a block index, next to an HttpClient with a
\* non-empty fallback list.  The repository's get and post call
\* this.axiosClient with this.serviceURL.
InitRepo ==
    /\ baseUrl = PrimaryUrl
    /\ \E n \in 1..MaxFallbacks : fallbacks \in [1..n -> Urls]
    /\ logger = [c \in CallIds |-> <<>>]
    /\ calls = [c \in CallIds |-> IdleCall]
    /\ blockIndex \in SUBSET Heights
    /\ txIndex = {}
    /\ accountAuth = NoAuth
    /\ dexWalletAddress = DexWallet
    /\ channel = "channel"
    /\ channelLog = <<"invoke app:updateModuleState", "publish bootstrap">>
    /\ adapterPc = "loaded"
    /\ dexMultisigPublicKeys = MemberKeysOf(accountAuth)
    /\ dexNumberOfSignatures = accountAuth.numberOfSignatures
    /\ sent = NoRequest
    /\ reply = NoReply

SpecRepo == InitRepo /\ [][NextQueries]_vars

\* C23: every request of the repository is executed through the client
\* with the fallback chain: a request is an HttpClient call, and when the
\* primary endpoint fails the configured fallbacks are attempted in order
\* before the failure is reported to the action.
C23_RepositoryRequestsFailOver ==
    (sent.path /= "none" /\ "status" \in DOMAIN sent) =>
        \E c \in CallIds :
            /\ calls[c].pc = "done"
            /\ sent.status /= 200 =>
                  /\ Len(Att(c)) = 1 + Len(fallbacks)
                  /\ \A i \in 1..Len(fallbacks) : Att(c)[i + 1].url = fallbacks[i]

====
